---------------------------- MODULE Spec2Model ----------------------------
(***************************************************************************)
(* A model of dns-noise: startup (configuration, resolver set), the noise  *)
(* loop of makeNoise, the pacing controller calcSleepPeriod with the       *)
(* pihole activity fetch, and the dispatcher dnsLookup / dnsQuery.         *)
(*                                                                         *)
(* Conventions                                                             *)
(*  - A Go string is a sequence of one-character strings, so that          *)
(*    strings.Split, strings.HasPrefix and fmt.Sprintf are computed.       *)
(*  - A time.Duration is an integer number of ticks; TicksPerMs ticks make *)
(*    one millisecond (Go counts nanoseconds; the scale is reduced so that *)
(*    the values fit the model checker's integers, and the truncation of   *)
(*    Duration.Milliseconds() is kept).  Configured durations are taken    *)
(*    non-negative.                                                        *)
(*  - A time.Time is an integer number of ticks; 0 is the zero Time.       *)
(*  - An optional JSON key is <<>> when absent and <<v>> when present.     *)
(***************************************************************************)
EXTENDS Integers, Sequences, FiniteSets, TLC

\* ------------------------------------------------------------------ bounds
\* ticks per millisecond (resolution of the model's durations)
TicksPerMs == 2
\* the loop is followed until the clock exceeds MaxTime ticks
MaxTime == 100
\* longest explicit nameserver list enumerated
MaxNameServers == 2
\* most rows in a pihole response
MaxRows == 3
\* the most requests the metrics listener serves in a run
MaxScrapes == 2

\* ----------------------------------------------------------------- strings
None == <<>>
Some(x) == <<x>>
IsSet(o) == Len(o) > 0
Get(o) == o[1]

EmptyStr == <<>>

\* strings.HasPrefix(s, prefix)
HasPrefix(s, prefix) ==
    /\ Len(s) >= Len(prefix)
    /\ SubSeq(s, 1, Len(prefix)) = prefix

\* strings.Split(s, sep) for a one-character separator
RECURSIVE Split(_, _)
Split(s, sep) ==
    IF \A i \in 1..Len(s) : s[i] # sep
    THEN <<s>>
    ELSE LET i == CHOOSE k \in 1..Len(s) :
                      /\ s[k] = sep
                      /\ \A j \in 1..(k - 1) : s[j] # sep
         IN  <<SubSeq(s, 1, i - 1)>> \o Split(SubSeq(s, i + 1, Len(s)), sep)

Digits == <<"0", "1", "2", "3", "4", "5", "6", "7", "8", "9">>

\* the %d verb of fmt.Sprintf
RECURSIVE FormatInt(_)
FormatInt(n) ==
    IF n < 0 THEN <<"-">> \o FormatInt(-n)
    ELSE IF n < 10 THEN <<Digits[n + 1]>>
    ELSE FormatInt(n \div 10) \o <<Digits[(n % 10) + 1]>>

\* --------------------------------------------------- address texts (inputs)
Addr4        == <<"1", ".", "2", ".", "3", ".", "4">>
AddrLoop6    == <<":", ":", "1">>
AddrLink6    == <<"f", "e", "8", "0", ":", ":", "1">>
AddrLink6Up  == <<"F", "E", "8", "0", ":", ":", "1">>
AddrMapped4  == <<":", ":", "f", "f", "f", "f", ":">> \o Addr4
AddrBogus    == <<"n", "s", "1">>
ZoneEth0     == <<"e", "t", "h", "0">>
ZoneEth1     == <<"e", "t", "h", "1">>
Percent      == "%"

\* net.ParseIP over the address texts above: the parsed IP, or NilIP.
\* text is what ip.String() prints; v4 tells whether ip.To4() is non-nil.
NilIP == [nil |-> TRUE, v4 |-> FALSE, text |-> EmptyStr]
IPOf(isV4, canonical) == [nil |-> FALSE, v4 |-> isV4, text |-> canonical]

ParseIP(s) ==
    CASE s = Addr4       -> IPOf(TRUE, Addr4)
      [] s = AddrLoop6   -> IPOf(FALSE, AddrLoop6)
      [] s = AddrLink6   -> IPOf(FALSE, AddrLink6)
      [] s = AddrLink6Up -> IPOf(FALSE, AddrLink6)
      [] s = AddrMapped4 -> IPOf(TRUE, Addr4)
      [] OTHER           -> NilIP

\* ------------------------------------------------------------ resolver set
\* dnsFormatIP(ipaddr, zone) (string, error)
dnsFormatIP_NoBrackets(ipaddr, zone) ==
    LET components == Split(ipaddr, Percent)
        z  == IF Len(components) > 1 THEN components[2] ELSE zone
        ip == ParseIP(components[1])
    IN  IF ip.nil THEN [s |-> EmptyStr, err |-> TRUE]
        ELSE IF ~ip.v4 /\ z # EmptyStr
             THEN [s |-> <<"[">> \o ip.text \o <<Percent>> \o z \o <<"]">>, err |-> FALSE]
             ELSE [s |-> ip.text, err |-> FALSE]

dnsFormatIP(ipaddr, zone) ==
    LET components == Split(ipaddr, Percent)
        z  == IF Len(components) > 1 THEN components[2] ELSE zone
        ip == ParseIP(components[1])
    IN  IF ip.nil THEN [s |-> EmptyStr, err |-> TRUE]
        ELSE IF ~ip.v4
             THEN IF z = EmptyStr
                  THEN [s |-> <<"[">> \o ip.text \o <<"]">>, err |-> FALSE]
                  ELSE [s |-> <<"[">> \o ip.text \o <<Percent>> \o z \o <<"]">>,
                        err |-> FALSE]
             ELSE [s |-> ip.text, err |-> FALSE]

\* the standard DNS port, used when an entry's port is 0
DefaultPort == 53

\* one iteration of the loop of dnsStatedClientConfig: the dnsFormatIP call
\* made for the entry and the hostport appended (<<>> when the entry is skipped)
StatedHostPort_NoDefaultPort(nsentry) ==
    LET f == dnsFormatIP(nsentry.Ip, nsentry.Zone)
    IN  [ipaddr   |-> nsentry.Ip,
         zone     |-> nsentry.Zone,
         port     |-> nsentry.Port,
         f        |-> f,
         hostport |-> IF f.err THEN <<>>
                      ELSE <<f.s \o <<":">> \o FormatInt(nsentry.Port)>>]

StatedHostPort(nsentry) ==
    LET f    == dnsFormatIP(nsentry.Ip, nsentry.Zone)
        port == IF nsentry.Port = 0 THEN DefaultPort ELSE nsentry.Port
    IN  [ipaddr   |-> nsentry.Ip,
         zone     |-> nsentry.Zone,
         port     |-> nsentry.Port,
         f        |-> f,
         hostport |-> IF f.err THEN <<>>
                      ELSE <<f.s \o <<":">> \o FormatInt(port)>>]

RECURSIVE StatedScan(_)
StatedScan(ns) ==
    IF ns = <<>> THEN <<>>
    ELSE <<StatedHostPort(Head(ns))>> \o StatedScan(Tail(ns))

\* servers = append(servers, hostport) over the iterations of a scan
RECURSIVE AppendedServers(_)
AppendedServers(scan) ==
    IF scan = <<>> THEN <<>>
    ELSE Head(scan).hostport \o AppendedServers(Tail(scan))

\* dnsStatedClientConfig(ns) ([]string, error); ns is None for a nil slice
dnsStatedClientConfig_KeepsEmpty(ns) ==
    IF ~IsSet(ns) THEN [servers |-> <<>>, err |-> TRUE, calls |-> <<>>]
    ELSE LET scan == StatedScan(Get(ns))
         IN  [servers |-> AppendedServers(scan), err |-> FALSE, calls |-> scan]

dnsStatedClientConfig(ns) ==
    IF ~IsSet(ns) THEN [servers |-> <<>>, err |-> TRUE, calls |-> <<>>]
    ELSE LET scan    == StatedScan(Get(ns))
             servers == AppendedServers(scan)
         IN  IF Len(servers) = 0
             THEN [servers |-> <<>>, err |-> TRUE, calls |-> scan]
             ELSE [servers |-> servers, err |-> FALSE, calls |-> scan]

\* one iteration of the loop of dnsDefaultClientConfig
DefaultHostPort(nsentry, port) ==
    LET f == dnsFormatIP(nsentry, EmptyStr)
    IN  [ipaddr   |-> nsentry,
         zone     |-> EmptyStr,
         port     |-> 0,
         f        |-> f,
         hostport |-> IF f.err THEN <<>> ELSE <<f.s \o <<":">> \o port>>]

RECURSIVE DefaultScan(_, _)
DefaultScan(servers, port) ==
    IF servers = <<>> THEN <<>>
    ELSE <<DefaultHostPort(Head(servers), port)>> \o DefaultScan(Tail(servers), port)

\* dnsDefaultClientConfig() ([]string, error); rc is what
\* dns.ClientConfigFromFile("/etc/resolv.conf") returned
dnsDefaultClientConfig(rc) ==
    IF rc.err THEN [servers |-> <<>>, err |-> TRUE, calls |-> <<>>]
    ELSE LET scan == DefaultScan(rc.Servers, rc.Port)
         IN  [servers |-> AppendedServers(scan), err |-> FALSE, calls |-> scan]

\* --------------------------------------------------------------- durations
Millisecond == TicksPerMs
Second      == 1000 * Millisecond
Minute      == 60 * Second

\* Duration.Milliseconds(): whole milliseconds, the fraction dropped
Milliseconds(d) == d \div Millisecond

\* the largest time.Duration: time.Since of the zero Time saturates to it
MaxDuration == 1000000000

\* time.Time zero value and Time.IsZero()
ZeroTime == 0
IsZero(t) == t = ZeroTime

\* time.Since(t) when the clock reads clock
Since(t, clock) == IF IsZero(t) THEN MaxDuration ELSE clock - t

\* ----------------------------------------------------------- configuration
\* Noise.UnmarshalJSON: defaults, then the keys present in the block
DefaultMinPeriod == 100 * Millisecond
DefaultMaxPeriod == 15 * Second

\* filepath.Join(os.TempDir(), "dns-noise.db")
DefaultDbPath == "/tmp/dns-noise.db"

NoiseUnmarshalJSON(b) ==
    [MinPeriod |-> IF IsSet(b.minPeriod) THEN Get(b.minPeriod) ELSE DefaultMinPeriod,
     MaxPeriod |-> IF IsSet(b.maxPeriod) THEN Get(b.maxPeriod) ELSE DefaultMaxPeriod,
     IPv4      |-> IF IsSet(b.ipv4) THEN Get(b.ipv4) ELSE TRUE,
     IPv6      |-> IF IsSet(b.ipv6) THEN Get(b.ipv6) ELSE FALSE,
     DbPath    |-> IF IsSet(b.dbPath) THEN Get(b.dbPath) ELSE DefaultDbPath]

\* the zero value of Noise: what Config.Noise holds when the file has no
\* "noise" key (json.Unmarshal calls UnmarshalJSON only for keys it meets)
ZeroNoise ==
    [MinPeriod |-> 0, MaxPeriod |-> 0, IPv4 |-> FALSE, IPv6 |-> FALSE,
     DbPath |-> ""]

\* Pihole.UnmarshalJSON: defaults, then the keys present in the block
DefaultNoisePercentage == 10
DefaultActivityPeriod  == 5 * Minute
DefaultPiholeRefresh   == 1 * Minute

PiholeUnmarshalJSON(b) ==
    [Host            |-> b.host,
     AuthToken       |-> b.authToken,
     ActivityPeriod  |-> IF IsSet(b.activityPeriod) THEN Get(b.activityPeriod)
                         ELSE DefaultActivityPeriod,
     Refresh         |-> IF IsSet(b.refresh) THEN Get(b.refresh)
                         ELSE DefaultPiholeRefresh,
     Filter          |-> b.filter,
     NoisePercentage |-> IF IsSet(b.noisePercentage) THEN Get(b.noisePercentage)
                         ELSE DefaultNoisePercentage,
     Enabled         |-> FALSE,
     Timestamp       |-> ZeroTime,
     SleepPeriod     |-> 0]

ZeroPihole ==
    [Host |-> EmptyStr, AuthToken |-> EmptyStr, ActivityPeriod |-> 0, Refresh |-> 0,
     Filter |-> EmptyStr, NoisePercentage |-> 0, Enabled |-> FALSE,
     Timestamp |-> ZeroTime, SleepPeriod |-> 0]

\* NameServer.UnmarshalJSON: Port defaults to 53
NameServerUnmarshalJSON(e) ==
    [Ip |-> e.ip, Zone |-> e.zone,
     Port |-> IF IsSet(e.port) THEN Get(e.port) ELSE DefaultPort]

RECURSIVE NameServersUnmarshal(_)
NameServersUnmarshal(es) ==
    IF es = <<>> THEN <<>>
    ELSE <<NameServerUnmarshalJSON(Head(es))>> \o NameServersUnmarshal(Tail(es))

\* Source: Timestamp starts as the zero Time
SourceUnmarshal(e) ==
    [Label |-> e.label, Refresh |-> e.refresh, Timestamp |-> ZeroTime]

RECURSIVE SourcesUnmarshal(_)
SourcesUnmarshal(es) ==
    IF es = <<>> THEN <<>>
    ELSE <<SourceUnmarshal(Head(es))>> \o SourcesUnmarshal(Tail(es))

\* Metrics.UnmarshalJSON and the zero value of Metrics
DefaultMetricsPort == 6001
MetricsUnmarshalJSON(b) ==
    [Enabled |-> IF IsSet(b.enabled) THEN Get(b.enabled) ELSE FALSE,
     Port    |-> DefaultMetricsPort]
ZeroMetrics == [Enabled |-> FALSE, Port |-> 0]

\* piholeEnabled(p)
piholeEnabled_IgnoresPercentage(p) ==
    /\ p.Host # EmptyStr
    /\ p.AuthToken # EmptyStr

piholeEnabled(p) ==
    /\ p.Host # EmptyStr
    /\ p.AuthToken # EmptyStr
    /\ ~(p.NoisePercentage <= 0)

\* json.Unmarshal(byteValue, c) into a new Config
ConfigUnmarshal(file) ==
    [NameServers |-> IF IsSet(file.nameservers)
                     THEN Some(NameServersUnmarshal(Get(file.nameservers)))
                     ELSE None,
     Noise       |-> IF IsSet(file.noise) THEN NoiseUnmarshalJSON(Get(file.noise))
                     ELSE ZeroNoise,
     Sources     |-> SourcesUnmarshal(file.sources),
     Pihole      |-> IF IsSet(file.pihole) THEN PiholeUnmarshalJSON(Get(file.pihole))
                     ELSE ZeroPihole,
     Metrics     |-> IF IsSet(file.metrics) THEN MetricsUnmarshalJSON(Get(file.metrics))
                     ELSE ZeroMetrics]

\* loadFlags(): the defaults of --min and --max
FlagDefaultMinPeriod == 100 * Millisecond
FlagDefaultMaxPeriod == 15000 * Millisecond
FlagDefaultDbPath    == "/tmp/dns-noise.db"

\* loadFlags(): args gives the values passed on the command line
loadFlags(args) ==
    [ReuseDatabase |-> args.reusedb,
     MinPassed     |-> IsSet(args.min),
     MinPeriod     |-> IF IsSet(args.min) THEN Get(args.min) ELSE FlagDefaultMinPeriod,
     MaxPassed     |-> IsSet(args.max),
     MaxPeriod     |-> IF IsSet(args.max) THEN Get(args.max) ELSE FlagDefaultMaxPeriod,
     DbPassed      |-> IsSet(args.database),
     DbPath        |-> IF IsSet(args.database) THEN Get(args.database)
                       ELSE FlagDefaultDbPath]

\* loadConfig(flags) after the file was read and parsed: the configuration,
\* and whether the "Min period exceeds max period" check ends the program
loadConfig_ChecksBeforeFlags(file, fl) ==
    LET c0 == ConfigUnmarshal(file)
        c1 == [c0 EXCEPT !.Pihole.Enabled = piholeEnabled(c0.Pihole)]
        c2 == IF fl.MinPassed THEN [c1 EXCEPT !.Noise.MinPeriod = fl.MinPeriod] ELSE c1
        c3 == IF fl.MaxPassed THEN [c2 EXCEPT !.Noise.MaxPeriod = fl.MaxPeriod] ELSE c2
        c4 == IF fl.DbPassed THEN [c3 EXCEPT !.Noise.DbPath = fl.DbPath] ELSE c3
    IN  [conf |-> c4, fatal |-> c1.Noise.MinPeriod > c1.Noise.MaxPeriod]

loadConfig(file, fl) ==
    LET c0 == ConfigUnmarshal(file)
        c1 == [c0 EXCEPT !.Pihole.Enabled = piholeEnabled(c0.Pihole)]
        c2 == IF fl.MinPassed THEN [c1 EXCEPT !.Noise.MinPeriod = fl.MinPeriod] ELSE c1
        c3 == IF fl.MaxPassed THEN [c2 EXCEPT !.Noise.MaxPeriod = fl.MaxPeriod] ELSE c2
        c4 == IF fl.DbPassed THEN [c3 EXCEPT !.Noise.DbPath = fl.DbPath] ELSE c3
    IN  [conf |-> c4, fatal |-> c4.Noise.MinPeriod > c4.Noise.MaxPeriod]

\* ------------------------------------------------------ activity monitor
\* process outcomes
NoFault          == "none"
FatalConfigFile  == "fatal: configuration file"
FatalMinMax      == "fatal: Min period exceeds max period"
FatalDnsConfig   == "fatal: Unable to establish DNS server configuration"
FatalSource      == "fatal: domains source"
PanicNilResponse == "panic: nil pointer dereference"
PanicDivide      == "panic: integer divide by zero"
PanicInt63n      == "panic: invalid argument to Int63n"
PanicIntn        == "panic: invalid argument to Intn"
FatalDbCount     == "fatal: dbCountRows"

\* piholeFilterNoise(filter, queries); a row's client host is query[3],
\* the fourth field
piholeFilterNoise_CountsFiltered(filter, queries) ==
    IF filter = EmptyStr THEN Len(queries)
    ELSE Cardinality({i \in 1..Len(queries) : HasPrefix(queries[i][4], filter)})

piholeFilterNoise(filter, queries) ==
    IF filter = EmptyStr THEN Len(queries)
    ELSE Cardinality({i \in 1..Len(queries) : ~HasPrefix(queries[i][4], filter)})

\* the HTTP status the fetch accepts
StatusOK == 200

\* piholeFetchActivity(p) int, for the outcome resp of http.Get and of reading
\* and parsing the body.  `defer response.Body.Close()` runs before err is
\* looked at, so a nil response is dereferenced.
piholeFetchActivity_ChecksErrFirst(p, resp) ==
    IF resp.err THEN [n |-> 0, fault |-> NoFault]
    ELSE IF resp.status # StatusOK THEN [n |-> 0, fault |-> NoFault]
    ELSE IF resp.readErr THEN [n |-> 0, fault |-> NoFault]
    ELSE IF resp.jsonErr THEN [n |-> 0, fault |-> NoFault]
    ELSE [n |-> piholeFilterNoise(p.Filter, resp.data), fault |-> NoFault]

piholeFetchActivity(p, resp) ==
    IF resp.nilResponse THEN [n |-> 0, fault |-> PanicNilResponse]
    ELSE IF resp.err THEN [n |-> 0, fault |-> NoFault]
    ELSE IF resp.status # StatusOK THEN [n |-> 0, fault |-> NoFault]
    ELSE IF resp.readErr THEN [n |-> 0, fault |-> NoFault]
    ELSE IF resp.jsonErr THEN [n |-> 0, fault |-> NoFault]
    ELSE [n |-> piholeFilterNoise(p.Filter, resp.data), fault |-> NoFault]

\* whether the HTTP call failed: no response or an error, a status other
\* than 200, or a body that cannot be read or parsed
FetchFailed(resp) ==
    resp.nilResponse \/ resp.err \/ resp.status # StatusOK \/ resp.readErr \/ resp.jsonErr

\* the error calcSleepPeriod receives beside the count ("if no activity, an
\* error will be returned"): set when there is no signal
piholeFetchActivityErr(numQueries) == numQueries <= 0

\* ------------------------------------------------------ pacing controller
\* int64(ActivityPeriod) * int64(NoisePercentage) / int64(numQueries)
RawSleepPeriod_TimesCount(p, numQueries) ==
    (p.ActivityPeriod * numQueries) \div p.NoisePercentage

RawSleepPeriod(p, numQueries) ==
    (p.ActivityPeriod * p.NoisePercentage) \div numQueries

\* the cap of the pihole sleep period to the min/max period
CapSleepPeriod_NoMax(sp, noise) ==
    IF sp < noise.MinPeriod THEN noise.MinPeriod ELSE sp

CapSleepPeriod_NoMin(sp, noise) ==
    IF sp > noise.MaxPeriod THEN noise.MaxPeriod ELSE sp

CapSleepPeriod(sp, noise) ==
    IF sp > noise.MaxPeriod THEN noise.MaxPeriod
    ELSE IF sp < noise.MinPeriod THEN noise.MinPeriod
    ELSE sp

\* the body of `if time.Since(c.Pihole.Timestamp) > c.Pihole.Refresh`:
\* the Pihole block after the refresh, or the fault that ends the process
PiholeRefresh(c, clock, resp) ==
    LET f          == piholeFetchActivity(c.Pihole, resp)
        numQueries == f.n
        err        == piholeFetchActivityErr(numQueries)
        divides    == ~err
        raw        == IF err THEN 0
                      ELSE IF numQueries = 0 THEN 0
                      ELSE RawSleepPeriod(c.Pihole, numQueries)
    IN  [fault      |-> IF f.fault # NoFault THEN f.fault
                        ELSE IF divides /\ numQueries = 0 THEN PanicDivide
                        ELSE NoFault,
         failed     |-> FetchFailed(resp),
         queries    |-> IF FetchFailed(resp) THEN <<>> ELSE resp.data,
         numQueries |-> numQueries,
         err        |-> err,
         divides    |-> divides /\ f.fault = NoFault,
         raw        |-> raw,
         Pihole     |-> [c.Pihole EXCEPT !.SleepPeriod = CapSleepPeriod(raw, c.Noise),
                                         !.Timestamp = clock]]

\* whether this call of calcSleepPeriod refreshes the pihole activity
RefreshDue_EveryTick(c, clock) == c.Pihole.Enabled

RefreshDue(c, clock) ==
    /\ c.Pihole.Enabled
    /\ Since(c.Pihole.Timestamp, clock) > c.Pihole.Refresh

\* the bound of the draw of the static-random period
SleepRange(noise) == noise.MaxPeriod - noise.MinPeriod

\* the bound of the draw of the jitter: sleepPeriod.Milliseconds()/10
JitterBound_Fifth(sleepPeriod) == Milliseconds(sleepPeriod) \div 5

JitterBound(sleepPeriod) == Milliseconds(sleepPeriod) \div 10

\* math_rand.Int63n(n): the values it can return; it panics when n <= 0
Int63n(n) == 0..(n - 1)

\* a call of calcSleepPeriod that has not happened
NoCalc ==
    [called |-> FALSE, refreshed |-> FALSE, fetchFailed |-> FALSE,
     queries |-> <<>>, numQueries |-> 0, err |-> FALSE,
     divides |-> FALSE, raw |-> 0, based |-> FALSE, sleepPeriod |-> 0,
     returned |-> FALSE, sleepDelta |-> 0, result |-> 0]

\* -------------------------------------------------------------- dispatcher
RcodeSuccess   == "NOERROR"
RcodeNameError == "NXDOMAIN"

\* the nil *dns.Msg
NilMsg == [nil |-> TRUE, Rcode |-> RcodeSuccess, Answer |-> <<>>]

\* the record types dnsLookup accepts; any other msgType becomes "A"
LookupType(msgType) ==
    IF msgType \in {"A", "AAAA", "CNAME", "MX"} THEN msgType ELSE "A"

\* dnsQuery(q, d) (*dns.Msg, error), for the outcome x of dns.Exchange(q, d);
\* resps counts the calls of metricsDnsResp
dnsQuery_EmptyAnswerIsError(x) ==
    IF x.err THEN [r |-> NilMsg, err |-> TRUE, resps |-> 0]
    ELSE IF x.Rcode # RcodeSuccess
         THEN [r |-> [nil |-> FALSE, Rcode |-> x.Rcode, Answer |-> x.Answer],
               err |-> FALSE, resps |-> 1]
         ELSE IF x.Answer = <<>>
              THEN [r |-> NilMsg, err |-> TRUE, resps |-> 0]
              ELSE [r |-> [nil |-> FALSE, Rcode |-> x.Rcode, Answer |-> x.Answer],
                    err |-> FALSE, resps |-> Len(x.Answer)]

dnsQuery_RcodeIsError(x) ==
    IF x.err \/ x.Rcode # RcodeSuccess THEN [r |-> NilMsg, err |-> TRUE, resps |-> 0]
    ELSE [r |-> [nil |-> FALSE, Rcode |-> x.Rcode, Answer |-> x.Answer],
          err |-> FALSE, resps |-> Len(x.Answer)]

dnsQuery(x) ==
    IF x.err THEN [r |-> NilMsg, err |-> TRUE, resps |-> 0]
    ELSE IF x.Rcode # RcodeSuccess
         THEN [r |-> [nil |-> FALSE, Rcode |-> x.Rcode, Answer |-> x.Answer],
               err |-> FALSE, resps |-> 1]
         ELSE [r |-> [nil |-> FALSE, Rcode |-> x.Rcode, Answer |-> x.Answer],
               err |-> FALSE, resps |-> Len(x.Answer)]

\* metricsDnsReq(label, server): obs are the observations of dnsReqVec made
\* so far, in order
metricsDnsReq(obs, label, server) == Append(obs, [type |-> label, server |-> server])

\* metricsDnsRespTime(dur, label, server): obs are the observations of
\* dnsRespTimeVec made so far, in order
metricsDnsRespTime(obs, label, server) == Append(obs, [type |-> label, server |-> server])

\* the latency observation of an exchange with outcome x on server d: one
\* per completed exchange
dnsQueryRespTime_OnFailureToo(obs, x, label, d) == metricsDnsRespTime(obs, label, d)

dnsQueryRespTime(obs, x, label, d) ==
    IF x.err THEN obs ELSE metricsDnsRespTime(obs, label, d)

\* a dnsLookup that is not running; reqs and times are the request and the
\* latency observations the call has made, primaryFailed the history of the
\* preceding call: whether its exchange with the first resolver ended in
\* transport failure
NoLookup ==
    [active |-> FALSE, msgType |-> "", t |-> "", domain |-> "", i |-> 0,
     done |-> FALSE, attempts |-> <<>>, ret |-> "", reqs |-> <<>>, times |-> <<>>,
     primaryFailed |-> FALSE]

\* one iteration of the loop of dnsLookup on server d, for the outcome x of
\* dns.Exchange: metricsDnsReq, dnsQuery, then continue on an error and
\* break otherwise
dnsLookupIteration_ReqAfterQuery(l, d, x) ==
    LET q == dnsQuery(x)
    IN  [l EXCEPT !.reqs = IF q.err THEN @ ELSE metricsDnsReq(@, l.t, d),
                  !.times = dnsQueryRespTime(@, x, l.t, d),
                  !.attempts = Append(@, [d |-> d, i |-> l.i, x |-> x,
                                          r |-> q.r, err |-> q.err]),
                  !.i = IF q.err THEN @ + 1 ELSE @,
                  !.done = ~q.err]

dnsLookupIteration(l, d, x) ==
    LET q == dnsQuery(x)
    IN  [l EXCEPT !.reqs = metricsDnsReq(@, l.t, d),
                  !.times = dnsQueryRespTime(@, x, l.t, d),
                  !.attempts = Append(@, [d |-> d, i |-> l.i, x |-> x,
                                          r |-> q.r, err |-> q.err]),
                  !.i = IF q.err THEN @ + 1 ELSE @,
                  !.done = ~q.err]

\* ------------------------------------------------------------ domain store
\* dbPurgeData(db, label): DELETE FROM Domains WHERE Label=?
dbPurgeData(rows, label) == SelectSeq(rows, LAMBDA r : r.Label # label)

RECURSIVE LabelledRows(_, _)
LabelledRows(domains, label) ==
    IF domains = <<>> THEN <<>>
    ELSE <<[Domain |-> Head(domains), Label |-> label]>>
         \o LabelledRows(Tail(domains), label)

\* dbLoadCSV(db, path, label, column): purge the label, insert the file's rows
dbLoadCSV(rows, domains, label) ==
    dbPurgeData(rows, label) \o LabelledRows(domains, label)

\* checkSourceRefresh(s), s the copy of the source that range returned
checkSourceRefresh_IgnoresZero(s, clock) ==
    Since(s.Timestamp, clock) > s.Refresh

checkSourceRefresh(s, clock) ==
    /\ s.Refresh # 0
    /\ Since(s.Timestamp, clock) > s.Refresh

\* refreshSources(db, sources) from source k on: the sources and rows after
\* it, the indexes of the sources it fetched (the one whose fetch ended the
\* program included), and whether fetchDomains ended the program.
\* download is what fetchDomains gets for a source (ok, domains).
RECURSIVE refreshSourcesFrom(_, _, _, _, _)
refreshSourcesFrom(k, sources, rows, clock, download) ==
    IF k > Len(sources)
    THEN [sources |-> sources, rows |-> rows, reloaded |-> <<>>, fatal |-> FALSE]
    ELSE LET s  == sources[k]
             s1 == IF IsZero(s.Timestamp)
                   THEN [sources EXCEPT ![k].Timestamp = clock] ELSE sources
         IN  IF checkSourceRefresh(s, clock)
             THEN IF ~download.ok
                  THEN [sources |-> s1, rows |-> rows, reloaded |-> <<k>>,
                        fatal |-> TRUE]
                  ELSE LET rest == refreshSourcesFrom(k + 1,
                                       [s1 EXCEPT ![k].Timestamp = clock],
                                       dbLoadCSV(rows, download.domains, s.Label),
                                       clock, download)
                       IN  [rest EXCEPT !.reloaded = <<k>> \o @]
             ELSE refreshSourcesFrom(k + 1, s1, rows, clock, download)

\* the initial import of makeNoise: for each source, fetchDomains and dbLoadCSV
RECURSIVE initialLoadFrom(_, _, _, _)
initialLoadFrom(k, sources, rows, download) ==
    IF k > Len(sources) THEN [rows |-> rows, fatal |-> FALSE]
    ELSE IF ~download.ok THEN [rows |-> rows, fatal |-> TRUE]
    ELSE initialLoadFrom(k + 1, sources,
                         dbLoadCSV(rows, download.domains, sources[k].Label), download)

\* ----------------------------------------------------------------- inputs
TextPort53 == <<"5", "3">>

\* what dns.ClientConfigFromFile("/etc/resolv.conf") can return
ResolvConfs ==
    {[err |-> TRUE, Servers |-> <<>>, Port |-> TextPort53]}
    \cup {[err |-> FALSE, Servers |-> sv, Port |-> TextPort53] :
             sv \in {<<>>, <<Addr4>>, <<AddrBogus>>, <<AddrLoop6, Addr4>>}}

\* the outcomes of dns.Exchange: a transport error, or a response (which
\* carries the question it answers, so r.Question[0] exists)
Exchanges ==
    {[err |-> TRUE,  Rcode |-> RcodeSuccess,   Answer |-> <<>>],
     [err |-> FALSE, Rcode |-> RcodeNameError, Answer |-> <<>>],
     [err |-> FALSE, Rcode |-> RcodeSuccess,   Answer |-> <<>>],
     [err |-> FALSE, Rcode |-> RcodeSuccess,   Answer |-> <<"CNAME", "A">>]}

\* client hosts of pihole rows, and the filter that matches the first
ClientNoise == <<"n", "z", ".", "l">>
ClientLive  == <<"p", "c">>
FilterNoise == <<"n", "z">>

PiholeRow(client) == <<<<"1">>, <<"A">>, <<"x">>, client>>

PiholeData ==
    UNION {[1..k -> {PiholeRow(ClientNoise), PiholeRow(ClientLive)}] : k \in 0..MaxRows}

\* the outcomes of the pihole fetch: http.Get fails without a response, or
\* with one (a redirect policy failure), a status other than 200, a body that
\* cannot be read or parsed, or the rows
Response(getErr, nilResp, status, readErr, jsonErr, data) ==
    [err |-> getErr, nilResponse |-> nilResp, status |-> status,
     readErr |-> readErr, jsonErr |-> jsonErr, data |-> data]

Responses ==
    {Response(TRUE, TRUE, 0, FALSE, FALSE, <<>>),
     Response(TRUE, FALSE, 0, FALSE, FALSE, <<>>),
     Response(FALSE, FALSE, 500, FALSE, FALSE, <<>>),
     Response(FALSE, FALSE, StatusOK, TRUE, FALSE, <<>>),
     Response(FALSE, FALSE, StatusOK, FALSE, TRUE, <<>>)}
    \cup {Response(FALSE, FALSE, StatusOK, FALSE, FALSE, d) : d \in PiholeData}

\* what fetchDomains gets, and what an existing database file holds
Downloads == {[ok |-> FALSE, domains |-> <<>>], [ok |-> TRUE, domains |-> <<"d1">>]}
ExistingDbs == {<<>>, <<[Domain |-> "d0", Label |-> "s1"]>>}

\* configuration files
NameServerEntry(ip, zone, port) == [ip |-> ip, zone |-> zone, port |-> port]

NoiseBlock(min, max, v4, v6) ==
    [minPeriod |-> Some(min), maxPeriod |-> Some(max),
     ipv4 |-> Some(v4), ipv6 |-> Some(v6), dbPath |-> None]

PiholeBlock(host, token, percentage, filter) ==
    [host |-> host, authToken |-> token,
     activityPeriod |-> Some(6 * Millisecond), refresh |-> Some(25 * Millisecond),
     filter |-> filter, noisePercentage |-> Some(percentage)]

ConfigFile(ns, noise, pihole) ==
    [ok |-> TRUE, nameservers |-> ns, noise |-> noise,
     sources |-> <<[label |-> "s1", refresh |-> 0]>>,
     pihole |-> pihole, metrics |-> None]

\* a configuration whose source has a refresh period
ConfigFileRefreshing(ns, noise, pihole, refresh) ==
    [ConfigFile(ns, noise, pihole) EXCEPT
        !.sources = <<[label |-> "s1", refresh |-> refresh]>>]

UnreadableFile ==
    [ok |-> FALSE, nameservers |-> None, noise |-> None, sources |-> <<>>,
     pihole |-> None, metrics |-> None]

CommandLine(reusedb, min, max) ==
    [reusedb |-> reusedb, min |-> min, max |-> max, database |-> None]

\* a command line that passes --database
CommandLineDb(path) ==
    [reusedb |-> FALSE, min |-> None, max |-> None, database |-> Some(path)]

\* the period values the configurations use: zero, below 10ms, and two above
\* 20ms, one of them not a whole number of milliseconds
PeriodChoices == {0, 3 * Millisecond + 1, 20 * Millisecond + 1, 22 * Millisecond}

HostPi  == <<"p", "i">>
TokenPi == <<"t">>

TwoNameServers ==
    Some(<<NameServerEntry(Addr4, EmptyStr, None),
           NameServerEntry(AddrLoop6, ZoneEth0, Some(DefaultPort))>>)

\* inputs that vary the pacing
PacingNoise ==
    {Some(NoiseBlock(min, max, TRUE, FALSE)) : min \in PeriodChoices, max \in PeriodChoices}

PacingFiles ==
    {ConfigFile(TwoNameServers, noise, Some(PiholeBlock(HostPi, TokenPi, 10, FilterNoise))) :
        noise \in PacingNoise}
    \cup {ConfigFile(TwoNameServers, noise, None) : noise \in PacingNoise}
    \cup {ConfigFile(TwoNameServers,
                     Some(NoiseBlock(20 * Millisecond + 1, 22 * Millisecond, TRUE, TRUE)),
                     Some(pihole)) :
             pihole \in {PiholeBlock(HostPi, EmptyStr, 10, FilterNoise),
                         PiholeBlock(EmptyStr, TokenPi, 10, FilterNoise),
                         PiholeBlock(HostPi, TokenPi, 0, FilterNoise),
                         PiholeBlock(HostPi, TokenPi, -5, FilterNoise),
                         PiholeBlock(HostPi, TokenPi, 150, FilterNoise),
                         PiholeBlock(HostPi, TokenPi, 100, EmptyStr)}}
    \cup {ConfigFile(None, None, None), UnreadableFile,
          ConfigFileRefreshing(TwoNameServers,
              Some(NoiseBlock(20 * Millisecond + 1, 22 * Millisecond, TRUE, FALSE)),
              None, 30 * Millisecond)}

PacingArgs ==
    {CommandLine(FALSE, None, None),
     CommandLine(TRUE, Some(3 * Millisecond + 1), None),
     CommandLine(FALSE, None, Some(20 * Millisecond + 1)),
     CommandLineDb("/var/db/noise.db")}

\* inputs that vary the resolver set
NameServerEntries ==
    {NameServerEntry(Addr4, EmptyStr, None),
     NameServerEntry(Addr4, ZoneEth0, Some(8053)),
     NameServerEntry(AddrLoop6, ZoneEth0, Some(DefaultPort)),
     NameServerEntry(AddrLink6 \o <<Percent>> \o ZoneEth1, ZoneEth0, Some(0)),
     NameServerEntry(AddrLink6 \o <<Percent>>, ZoneEth0, None),
     NameServerEntry(AddrLink6Up, EmptyStr, None),
     NameServerEntry(AddrMapped4, ZoneEth1, None),
     NameServerEntry(AddrBogus, EmptyStr, None)}

NameServerLists ==
    {None} \cup {Some(l) : l \in UNION {[1..k -> NameServerEntries] : k \in 0..MaxNameServers}}

ResolverFiles ==
    {ConfigFile(ns, Some(NoiseBlock(20 * Millisecond, 20 * Millisecond + 1, TRUE, TRUE)), None) :
        ns \in NameServerLists}
    \cup {UnreadableFile}

ResolverArgs == {CommandLine(FALSE, None, None), CommandLine(TRUE, None, None)}

\* inputs that vary the domain sources: one source that never refreshes,
\* that source followed by an unlabelled source with a refresh period, one
\* refreshing source, and two refreshing sources
SourceEntry(label, refresh) == [label |-> label, refresh |-> refresh]

SourceLists ==
    {<<SourceEntry("s1", 0)>>,
     <<SourceEntry("s1", 0), SourceEntry("", 30 * Millisecond)>>,
     <<SourceEntry("s1", 30 * Millisecond)>>,
     <<SourceEntry("s1", 30 * Millisecond), SourceEntry("s2", 45 * Millisecond)>>}

SourceFiles ==
    {[ConfigFile(TwoNameServers,
                 Some(NoiseBlock(20 * Millisecond + 1, 22 * Millisecond, TRUE, FALSE)),
                 None) EXCEPT !.sources = l] : l \in SourceLists}

SourceArgs == {CommandLine(FALSE, None, None), CommandLine(TRUE, None, None)}

\* inputs that vary the metrics block: absent, disabled, enabled, and
\* present without "enabled"; the pacing follows the pihole activity
MetricsBlock(enabled) == [enabled |-> enabled]

MetricsFiles ==
    {[ConfigFile(TwoNameServers,
                 Some(NoiseBlock(20 * Millisecond + 1, 22 * Millisecond, TRUE, TRUE)),
                 Some(PiholeBlock(HostPi, TokenPi, 10, FilterNoise)))
         EXCEPT !.metrics = m] :
        m \in {None, Some(MetricsBlock(None)), Some(MetricsBlock(Some(FALSE))),
               Some(MetricsBlock(Some(TRUE)))}}

MetricsArgs == {CommandLine(FALSE, None, None)}

\* ------------------------------------------------------------------ state
VARIABLES
    pc,            \* where main / makeNoise stands
    fault,         \* NoFault, or how the process ended (log.Fatal, panic)
    flags,         \* *Flags of loadFlags
    conf,          \* *Config of loadConfig (Pihole.Timestamp, Pihole.SleepPeriod
                   \* and Sources[i].Timestamp change during the run)
    dnsServers,    \* var dnsServers []string
    dnsCalls,      \* the dnsFormatIP calls dnsServerConfig made, in order
    now,           \* the clock
    calc,          \* the locals of the running call of calcSleepPeriod
    db,            \* the rows of table Domains
    randomDomain,  \* what dbGetRandomDomain returned in this iteration
    lookup,        \* the locals of the running call of dnsLookup
    listening,     \* whether metricsConfig started the metrics listener
    confFile,      \* the configuration file as loadConfig read it
    reloaded,      \* the sources the last refreshSources call fetched
    scrapes        \* the requests the metrics listener has served

vars == <<pc, fault, flags, conf, dnsServers, dnsCalls, now, calc, db,
          randomDomain, lookup, listening, confFile, reloaded, scrapes>>

ZeroFlags ==
    [ReuseDatabase |-> FALSE, MinPassed |-> FALSE, MinPeriod |-> 0,
     MaxPassed |-> FALSE, MaxPeriod |-> 0, DbPassed |-> FALSE, DbPath |-> ""]

ZeroConfig ==
    [NameServers |-> None, Noise |-> ZeroNoise, Sources |-> <<>>,
     Pihole |-> ZeroPihole, Metrics |-> ZeroMetrics]

\* the clock when the process starts
StartTime == 1

Init ==
    /\ pc = "main"
    /\ fault = NoFault
    /\ flags = ZeroFlags
    /\ conf = ZeroConfig
    /\ dnsServers = <<>>
    /\ dnsCalls = <<>>
    /\ now = StartTime
    /\ calc = NoCalc
    /\ db = <<>>
    /\ randomDomain = ""
    /\ lookup = NoLookup
    /\ listening = FALSE
    /\ confFile = UnreadableFile
    /\ reloaded = <<>>
    /\ scrapes = 0

\* log.Fatal or a panic: the process ends
Exit(how) ==
    /\ pc' = "exit"
    /\ fault' = how

\* main: loadFlags() and loadConfig(flags); file is the configuration file
\* (readable and valid JSON or not, and its blocks), args the command line
LoadConfig(file, args) ==
    /\ pc = "main"
    /\ flags' = loadFlags(args)
    /\ confFile' = file
    /\ IF ~file.ok
       THEN /\ Exit(FatalConfigFile)
            /\ UNCHANGED conf
       ELSE LET r == loadConfig(file, loadFlags(args))
            IN  /\ conf' = r.conf
                /\ IF r.fatal THEN Exit(FatalMinMax)
                   ELSE pc' = "dnsServerConfig" /\ UNCHANGED fault
    /\ UNCHANGED <<dnsServers, dnsCalls, now, calc, db, randomDomain, lookup,
                   listening, reloaded, scrapes>>

\* dnsServerConfig(conf.NameServers); rc is what reading /etc/resolv.conf
\* gives when the stated configuration fails
DnsServerConfig(rc) ==
    /\ pc = "dnsServerConfig"
    /\ LET stated   == dnsStatedClientConfig(conf.NameServers)
           defaults == dnsDefaultClientConfig(rc)
       IN  IF ~stated.err
           THEN /\ dnsServers' = stated.servers
                /\ dnsCalls' = stated.calls
                /\ pc' = "metricsConfig"
                /\ UNCHANGED fault
           ELSE IF defaults.err
                THEN /\ Exit(FatalDnsConfig)
                     /\ dnsCalls' = stated.calls
                     /\ UNCHANGED dnsServers
                ELSE /\ dnsServers' = defaults.servers
                     /\ dnsCalls' = stated.calls \o defaults.calls
                     /\ pc' = "metricsConfig"
                     /\ UNCHANGED fault
    /\ UNCHANGED <<flags, conf, now, calc, db, randomDomain, lookup, listening,
                   confFile, reloaded, scrapes>>

\* metricsConfig(&conf.Metrics): starts the listener goroutine when enabled
MetricsConfig ==
    /\ pc = "metricsConfig"
    /\ listening' = conf.Metrics.Enabled
    /\ pc' = "makeNoise"
    /\ UNCHANGED <<fault, flags, conf, dnsServers, dnsCalls, now, calc, db,
                   randomDomain, lookup, confFile, reloaded, scrapes>>

\* makeNoise up to its loop: dbOpen and, unless the database is reused,
\* dbCreateSchema and the import of every source.  existing is what the
\* database file holds, download what fetchDomains gets.
MakeNoise(existing, download) ==
    /\ pc = "makeNoise"
    /\ IF flags.ReuseDatabase
       THEN /\ db' = existing
            /\ pc' = "refreshSources"
            /\ UNCHANGED fault
       ELSE LET r == initialLoadFrom(1, conf.Sources, <<>>, download)
            IN  /\ db' = r.rows
                /\ IF r.fatal THEN Exit(FatalSource)
                   ELSE pc' = "refreshSources" /\ UNCHANGED fault
    /\ UNCHANGED <<flags, conf, dnsServers, dnsCalls, now, calc, randomDomain,
                   lookup, listening,
                   confFile, reloaded, scrapes>>

\* the loop head: refreshSources(db, conf.Sources)
RefreshSources(download) ==
    /\ pc = "refreshSources"
    /\ now <= MaxTime
    /\ LET r == refreshSourcesFrom(1, conf.Sources, db, now, download)
       IN  /\ conf' = [conf EXCEPT !.Sources = r.sources]
           /\ db' = r.rows
           /\ reloaded' = r.reloaded
           /\ IF r.fatal THEN Exit(FatalSource)
              ELSE pc' = "calcSleepPeriod" /\ UNCHANGED fault
    /\ randomDomain' = ""
    /\ UNCHANGED <<flags, dnsServers, dnsCalls, now, calc, lookup, listening,
                   confFile, scrapes>>

\* calcSleepPeriod(conf), first half: the base sleepPeriod, from the pihole
\* activity (resp is the outcome of the fetch a refresh makes) or from the
\* static-random draw
CalcBase ==
    /\ pc = "calcSleepPeriod"
    /\ ~calc.called
    /\ IF conf.Pihole.Enabled
       THEN IF RefreshDue(conf, now)
            THEN \E resp \in Responses :
                 LET f == PiholeRefresh(conf, now, resp)
                 IN  IF f.fault # NoFault
                     THEN /\ Exit(f.fault)
                          /\ calc' = [calc EXCEPT !.called = TRUE, !.refreshed = TRUE,
                                          !.fetchFailed = f.failed,
                                          !.queries = f.queries,
                                          !.numQueries = f.numQueries, !.err = f.err,
                                          !.divides = f.divides]
                          /\ UNCHANGED conf
                     ELSE /\ conf' = [conf EXCEPT !.Pihole = f.Pihole]
                          /\ calc' = [calc EXCEPT !.called = TRUE, !.refreshed = TRUE,
                                          !.fetchFailed = f.failed,
                                          !.queries = f.queries,
                                          !.numQueries = f.numQueries, !.err = f.err,
                                          !.divides = f.divides, !.raw = f.raw,
                                          !.based = TRUE,
                                          !.sleepPeriod = f.Pihole.SleepPeriod]
                          /\ UNCHANGED <<pc, fault>>
            ELSE /\ calc' = [calc EXCEPT !.called = TRUE, !.based = TRUE,
                                 !.sleepPeriod = conf.Pihole.SleepPeriod]
                 /\ UNCHANGED <<pc, fault, conf>>
       ELSE IF SleepRange(conf.Noise) <= 0
            THEN /\ Exit(PanicInt63n)
                 /\ calc' = [calc EXCEPT !.called = TRUE]
                 /\ UNCHANGED conf
            ELSE \E r \in Int63n(SleepRange(conf.Noise)) :
                    /\ calc' = [calc EXCEPT !.called = TRUE, !.based = TRUE,
                                    !.sleepPeriod = r + conf.Noise.MinPeriod]
                    /\ UNCHANGED <<pc, fault, conf>>
    /\ UNCHANGED <<flags, dnsServers, dnsCalls, now, db, randomDomain, lookup,
                   listening,
                   confFile, reloaded, scrapes>>

\* calcSleepPeriod(conf), second half: the jitter sleepDelta and the return
CalcJitter ==
    /\ pc = "calcSleepPeriod"
    /\ calc.based
    /\ IF JitterBound(calc.sleepPeriod) <= 0
       THEN /\ Exit(PanicInt63n)
            /\ UNCHANGED calc
       ELSE \E r \in Int63n(JitterBound(calc.sleepPeriod)) :
               /\ calc' = [calc EXCEPT !.returned = TRUE,
                               !.sleepDelta = r * Millisecond,
                               !.result = calc.sleepPeriod + r * Millisecond]
               /\ pc' = "sleep"
               /\ UNCHANGED fault
    /\ UNCHANGED <<flags, conf, dnsServers, dnsCalls, now, db, randomDomain,
                   lookup, listening,
                   confFile, reloaded, scrapes>>

\* time.Sleep(calcSleepPeriod(conf))
Sleep ==
    /\ pc = "sleep"
    /\ now' = now + calc.result
    /\ calc' = NoCalc
    /\ pc' = "dbGetRandomDomain"
    /\ UNCHANGED <<fault, flags, conf, dnsServers, dnsCalls, db, randomDomain,
                   lookup, listening,
                   confFile, reloaded, scrapes>>

\* dbGetRandomDomain(db): pingErr and scanErr are the outcomes of db.Ping and
\* of the row query, countErr that of the ping and the COUNT(*) query of
\* dbCountRows (log.Fatal); the offset is the draw of rand.Intn(numRows).
\* On an error makeNoise logs it and dispatches nothing.
DbGetRandomDomain(pingErr, countErr, scanErr) ==
    /\ pc = "dbGetRandomDomain"
    /\ IF pingErr
       THEN /\ randomDomain' = ""
            /\ pc' = "refreshSources"
            /\ UNCHANGED fault
       ELSE IF countErr
            THEN /\ Exit(FatalDbCount)
                 /\ UNCHANGED randomDomain
       ELSE IF Len(db) <= 0
            THEN /\ Exit(PanicIntn)
                 /\ UNCHANGED randomDomain
            ELSE \E offset \in 0..(Len(db) - 1) :
                    /\ IF scanErr
                       THEN /\ randomDomain' = ""
                            /\ pc' = "refreshSources"
                       ELSE /\ randomDomain' = db[offset + 1].Domain
                            /\ pc' = "dispatchAAAA"
                    /\ UNCHANGED fault
    /\ UNCHANGED <<flags, conf, dnsServers, dnsCalls, now, calc, db, lookup,
                   listening,
                   confFile, reloaded, scrapes>>

\* the entry of dnsLookup(domain, msgType), called from makeNoise at pc from
\* when enabled; makeNoise goes on at pc ret
Dispatch_SkipsFailedPrimary(from, enabled, msgType, ret) ==
    /\ pc = from
    /\ IF enabled
       THEN /\ lookup' = [active |-> TRUE, msgType |-> msgType,
                          t |-> LookupType(msgType), domain |-> randomDomain,
                          i |-> IF lookup.primaryFailed THEN 2 ELSE 1,
                          done |-> FALSE, attempts |-> <<>>, ret |-> ret,
                          reqs |-> <<>>, times |-> <<>>,
                          primaryFailed |-> lookup.primaryFailed]
            /\ pc' = "dnsLookup"
       ELSE /\ pc' = ret
            /\ UNCHANGED lookup
    /\ UNCHANGED <<fault, flags, conf, dnsServers, dnsCalls, now, calc, db,
                   randomDomain, listening,
                   confFile, reloaded, scrapes>>

Dispatch(from, enabled, msgType, ret) ==
    /\ pc = from
    /\ IF enabled
       THEN /\ lookup' = [active |-> TRUE, msgType |-> msgType,
                          t |-> LookupType(msgType), domain |-> randomDomain,
                          i |-> 1, done |-> FALSE, attempts |-> <<>>, ret |-> ret,
                          reqs |-> <<>>, times |-> <<>>,
                          primaryFailed |-> lookup.primaryFailed]
            /\ pc' = "dnsLookup"
       ELSE /\ pc' = ret
            /\ UNCHANGED lookup
    /\ UNCHANGED <<fault, flags, conf, dnsServers, dnsCalls, now, calc, db,
                   randomDomain, listening,
                   confFile, reloaded, scrapes>>

\* if conf.Noise.IPv6 { dnsLookup(randomDomain, "AAAA") }
DispatchAAAA_SkipsA == Dispatch("dispatchAAAA", conf.Noise.IPv6, "AAAA", "refreshSources")

DispatchAAAA == Dispatch("dispatchAAAA", conf.Noise.IPv6, "AAAA", "dispatchA")

\* if conf.Noise.IPv4 { dnsLookup(randomDomain, "A") }
DispatchA == Dispatch("dispatchA", conf.Noise.IPv4, "A", "refreshSources")

\* whether the loop over dnsServers has ended (break, or the range is used up)
LookupEnded_SkipsLast == lookup.done \/ lookup.i >= Len(dnsServers)

LookupEnded == lookup.done \/ lookup.i > Len(dnsServers)

\* one iteration of the loop of dnsLookup, on server dnsServers[i]; x is the
\* outcome of dns.Exchange
DnsLookupTry(x) ==
    /\ pc = "dnsLookup"
    /\ ~LookupEnded
    /\ lookup' = dnsLookupIteration(lookup, dnsServers[lookup.i], x)
    /\ UNCHANGED <<pc, fault, flags, conf, dnsServers, dnsCalls, now, calc, db,
                   randomDomain, listening,
                   confFile, reloaded, scrapes>>

\* dnsLookup returns to makeNoise
DnsLookupReturn ==
    /\ pc = "dnsLookup"
    /\ LookupEnded
    /\ pc' = lookup.ret
    /\ lookup' = [NoLookup EXCEPT
                      !.primaryFailed = /\ lookup.attempts # <<>>
                                        /\ lookup.attempts[1].x.err]
    /\ UNCHANGED <<fault, flags, conf, dnsServers, dnsCalls, now, calc, db,
                   randomDomain, listening,
                   confFile, reloaded, scrapes>>

\* the goroutine of metricsConfig, http.ListenAndServe(port, nil): it serves
\* one request for conf.Path with promhttp.Handler(), which reads the
\* registered counters and gauges; it lives as long as the process
MetricsListener_TouchesPacing ==
    /\ listening
    /\ pc # "exit"
    /\ scrapes < MaxScrapes
    /\ scrapes' = scrapes + 1
    /\ conf' = [conf EXCEPT !.Pihole.Timestamp = now]
    /\ UNCHANGED <<pc, fault, flags, dnsServers, dnsCalls, now, calc, db,
                   randomDomain, lookup, listening, confFile, reloaded>>

MetricsListener ==
    /\ listening
    /\ pc # "exit"
    /\ scrapes < MaxScrapes
    /\ scrapes' = scrapes + 1
    /\ UNCHANGED <<pc, fault, flags, conf, dnsServers, dnsCalls, now, calc, db,
                   randomDomain, lookup, listening, confFile, reloaded>>

\* ----------------------------------------------------------- specification
\* everything after loadConfig
Run ==
    \/ \E rc \in ResolvConfs : DnsServerConfig(rc)
    \/ MetricsConfig
    \/ \E existing \in ExistingDbs, download \in Downloads : MakeNoise(existing, download)
    \/ \E download \in Downloads : RefreshSources(download)
    \/ CalcBase
    \/ CalcJitter
    \/ Sleep
    \/ \E pingErr \in BOOLEAN, countErr \in BOOLEAN, scanErr \in BOOLEAN :
          DbGetRandomDomain(pingErr, countErr, scanErr)
    \/ DispatchAAAA
    \/ DispatchA
    \/ \E x \in Exchanges : DnsLookupTry(x)
    \/ DnsLookupReturn

\* the program over the configurations that vary the pacing
Next ==
    \/ \E file \in PacingFiles, args \in PacingArgs : LoadConfig(file, args)
    \/ Run

Spec == Init /\ [][Next]_vars

\* the program over the configurations that vary the resolver set
NextResolvers ==
    \/ \E file \in ResolverFiles, args \in ResolverArgs : LoadConfig(file, args)
    \/ Run

SpecResolvers == Init /\ [][NextResolvers]_vars

\* the program over the configurations that vary the domain sources
NextSources ==
    \/ \E file \in SourceFiles, args \in SourceArgs : LoadConfig(file, args)
    \/ Run

SpecSources == Init /\ [][NextSources]_vars

\* the program with the metrics listener beside the noise loop
NextMetrics ==
    \/ \E file \in MetricsFiles, args \in MetricsArgs : LoadConfig(file, args)
    \/ Run
    \/ MetricsListener

SpecMetrics == Init /\ [][NextMetrics]_vars

\* ------------------------------------------------------------------ claims
\* C1: in both pacing modes, whenever calcSleepPeriod has computed its base
\* delay (the pihole sleep period after the cap, the sticky value between
\* refreshes, or the static-random draw), that delay is at least minPeriod
\* and at most maxPeriod, also when minPeriod = maxPeriod.
C1_BaseDelayWithinBounds ==
    calc.based =>
        /\ conf.Noise.MinPeriod <= calc.sleepPeriod
        /\ calc.sleepPeriod <= conf.Noise.MaxPeriod

\* a refresh whose raw delay exceeds maxPeriod, with minPeriod = maxPeriod
C1_Witness ==
    /\ calc.based
    /\ calc.refreshed
    /\ calc.raw > conf.Noise.MaxPeriod
    /\ conf.Noise.MinPeriod = conf.Noise.MaxPeriod
    /\ calc.sleepPeriod = conf.Noise.MaxPeriod

\* C2: whenever calcSleepPeriod returns, the duration returned is the base
\* delay plus a jitter of at least 0 and at most a tenth of the base delay,
\* and so lies between minPeriod and 1.1 times maxPeriod.
C2_JitterAtMostTenth ==
    calc.returned =>
        /\ calc.result = calc.sleepPeriod + calc.sleepDelta
        /\ 0 <= calc.sleepDelta
        /\ 10 * calc.sleepDelta <= calc.sleepPeriod
        /\ conf.Noise.MinPeriod <= calc.result
        /\ 10 * calc.result <= 11 * conf.Noise.MaxPeriod

\* a return with a jitter above zero
C2_Witness ==
    /\ calc.returned
    /\ calc.sleepDelta > 0
    /\ calc.result > calc.sleepPeriod

\* C3: in feedback mode, when the activity fetch of a refresh fails or
\* reports an observed count <= 0, no division by the count is performed and
\* the refresh sets the base delay to minPeriod.
C3_NoSignalFallsBackToMin ==
    (calc.refreshed /\ (calc.fetchFailed \/ calc.numQueries <= 0)) =>
        /\ ~calc.divides
        /\ calc.based
        /\ calc.sleepPeriod = conf.Noise.MinPeriod

\* C4: a failure of the activity-monitor HTTP call makes piholeFetchActivity
\* end with the 'no signal' result (count 0, error set); the fetch never
\* faults, and calcSleepPeriod goes on to its base delay.
C4_FetchFailureIsNoSignal ==
    calc.fetchFailed =>
        /\ fault # PanicNilResponse
        /\ calc.numQueries = 0
        /\ calc.err
        /\ calc.based

\* C5: dnsLookup contacts the resolvers in list order, contacts a resolver
\* only after every resolver before it ended in transport failure, and stops
\* at the first resolver whose exchange completes at transport level whatever
\* its response code: that resolver's response is the outcome and it is the
\* last resolver contacted.
C5_OrderedFailover ==
    lookup.active =>
        /\ Len(lookup.attempts) <= Len(dnsServers)
        /\ \A k \in 1..Len(lookup.attempts) :
              LET a == lookup.attempts[k]
              IN  /\ a.d = dnsServers[k]
                  /\ \A j \in 1..(k - 1) : lookup.attempts[j].x.err
                  /\ ~a.x.err =>
                        /\ k = Len(lookup.attempts)
                        /\ lookup.done
                        /\ ~a.err
                        /\ ~a.r.nil
                        /\ a.r.Rcode = a.x.Rcode
                        /\ a.r.Answer = a.x.Answer
        /\ lookup.done =>
              /\ Len(lookup.attempts) > 0
              /\ ~lookup.attempts[Len(lookup.attempts)].x.err

\* resolver A fails at transport level, resolver B answers NXDOMAIN
C5_Witness ==
    /\ lookup.active
    /\ Len(dnsServers) = 2
    /\ Len(lookup.attempts) = 2
    /\ lookup.attempts[1].x.err
    /\ ~lookup.attempts[2].x.err
    /\ lookup.attempts[2].r.Rcode = RcodeNameError
    /\ lookup.attempts[2].d = dnsServers[2]
    /\ lookup.done

\* C6: when every resolver ends in transport failure, dnsLookup returns
\* after it attempted each resolver exactly once, in order; the return does
\* not end the process: makeNoise goes on with the next lookup (after AAAA)
\* or the next tick (after A).
C6_AllFailOnePass ==
    [][(lookup.active /\ ~lookup'.active /\ ~lookup.done) =>
          /\ Len(lookup.attempts) = Len(dnsServers)
          /\ \A k \in 1..Len(lookup.attempts) :
                /\ lookup.attempts[k].d = dnsServers[k]
                /\ lookup.attempts[k].x.err
          /\ fault' = NoFault
          /\ pc' = IF lookup.msgType = "AAAA" THEN "dispatchA"
                   ELSE "refreshSources"]_vars

\* both resolvers of a list of two failed, and the loop is over
C6_Witness ==
    /\ lookup.active
    /\ Len(dnsServers) = 2
    /\ Len(lookup.attempts) = 2
    /\ lookup.attempts[1].x.err
    /\ lookup.attempts[2].x.err
    /\ ~lookup.done
    /\ lookup.i > Len(dnsServers)

\* C7: a response with the success response code and zero answer records
\* is a completed exchange: dnsQuery returns the response (with its empty
\* record list) and no error, and dnsLookup contacts no further resolver.
C7_EmptyAnswerIsSuccess ==
    lookup.active =>
        \A k \in 1..Len(lookup.attempts) :
            LET a == lookup.attempts[k]
            IN  (~a.x.err /\ a.x.Rcode = RcodeSuccess /\ a.x.Answer = <<>>) =>
                    /\ ~a.err
                    /\ ~a.r.nil
                    /\ a.r.Rcode = RcodeSuccess
                    /\ a.r.Answer = <<>>
                    /\ k = Len(lookup.attempts)
                    /\ lookup.done

\* an AAAA lookup whose first resolver answers NOERROR with no records,
\* a second resolver being configured
C7_Witness ==
    /\ lookup.active
    /\ lookup.msgType = "AAAA"
    /\ Len(dnsServers) = 2
    /\ Len(lookup.attempts) = 1
    /\ ~lookup.attempts[1].x.err
    /\ lookup.attempts[1].x.Rcode = RcodeSuccess
    /\ lookup.attempts[1].x.Answer = <<>>
    /\ lookup.done

\* C8: whenever resolver configuration completes without a fatal exit, the
\* resolver set is non-empty.
C8_ResolverSetNonEmpty ==
    pc \notin {"main", "dnsServerConfig", "exit"} => Len(dnsServers) > 0

\* the entries of an explicit list whose address (the text before a '%')
\* parses as an IP address
C9_Valid(nsentry) == ~ParseIP(Split(nsentry.Ip, Percent)[1]).nil

\* address:port of an entry, port 53 when none is configured
C9_Rendered(nsentry) ==
    dnsFormatIP(nsentry.Ip, nsentry.Zone).s \o <<":">>
        \o FormatInt(IF nsentry.Port = 0 THEN 53 ELSE nsentry.Port)

RECURSIVE C9_Expected(_)
C9_Expected(ns) ==
    IF ns = <<>> THEN <<>>
    ELSE (IF C9_Valid(Head(ns)) THEN <<C9_Rendered(Head(ns))>> ELSE <<>>)
         \o C9_Expected(Tail(ns))

\* C9: the resolver set built from an explicit nameserver list holds exactly
\* the entries whose address parses as an IP address, in the configured
\* order, each as address:port with port 53 when no port is configured;
\* invalid entries are skipped.
C9_StatedListInOrder ==
    (/\ pc \notin {"main", "dnsServerConfig"}
     /\ IsSet(conf.NameServers)
     /\ \E k \in 1..Len(Get(conf.NameServers)) : C9_Valid(Get(conf.NameServers)[k])) =>
        /\ fault # FatalDnsConfig
        /\ dnsServers = C9_Expected(Get(conf.NameServers))

\* a list of an invalid entry and fe80::1%eth1 with port 0: one endpoint
C9_Witness ==
    /\ pc = "metricsConfig"
    /\ IsSet(conf.NameServers)
    /\ Len(Get(conf.NameServers)) = 2
    /\ Get(conf.NameServers)[1].Ip = AddrBogus
    /\ Get(conf.NameServers)[2].Port = 0
    /\ dnsServers = << <<"[">> \o AddrLink6 \o <<Percent>> \o ZoneEth1
                       \o <<"]", ":", "5", "3">> >>

\* whether the text s holds the character c
C10_Has(s, c) == \E i \in 1..Len(s) : s[i] = c

\* C10: dnsFormatIP renders an IPv6 address inside brackets, with '%zone'
\* inside the brackets exactly when a zone applies, the zone embedded in the
\* address text taking precedence over the configured zone; it renders an
\* IPv4 address (ip.To4() non-nil) without brackets and without a zone.
C10_BracketsAndZone ==
    \A k \in 1..Len(dnsCalls) :
        LET c     == dnsCalls[k]
            parts == Split(c.ipaddr, Percent)
            ip    == ParseIP(parts[1])
            z     == IF Len(parts) > 1 THEN parts[2] ELSE c.zone
            n     == Len(c.f.s)
        IN  /\ c.f.err <=> ip.nil
            /\ (~c.f.err /\ ~ip.v4) =>
                  /\ n >= 2
                  /\ c.f.s[1] = "["
                  /\ c.f.s[n] = "]"
                  /\ IF z = EmptyStr
                     THEN SubSeq(c.f.s, 2, n - 1) = ip.text
                     ELSE SubSeq(c.f.s, 2, n - 1) = ip.text \o <<Percent>> \o z
            /\ (~c.f.err /\ ip.v4) =>
                  /\ c.f.s = ip.text
                  /\ ~C10_Has(c.f.s, "[")
                  /\ ~C10_Has(c.f.s, "]")
                  /\ ~C10_Has(c.f.s, Percent)

\* fe80::1%eth1 with the configured zone eth0 gives [fe80::1%eth1], and an
\* IPv4 address with a configured zone is rendered bare
C10_Witness ==
    /\ Len(dnsCalls) = 2
    /\ dnsCalls[1].ipaddr = AddrLink6 \o <<Percent>> \o ZoneEth1
    /\ dnsCalls[1].zone = ZoneEth0
    /\ dnsCalls[1].f.s = <<"[">> \o AddrLink6 \o <<Percent>> \o ZoneEth1 \o <<"]">>
    /\ dnsCalls[2].ipaddr = Addr4
    /\ dnsCalls[2].zone = ZoneEth0
    /\ dnsCalls[2].f.s = Addr4

\* C11: dbGetRandomDomain reports every sampling failure (empty corpus and
\* unreachable database included) as an error value and never ends the
\* process; on a failure makeNoise dispatches no lookup in that tick and
\* goes on with the next tick.
C11_SamplingFailureSkipsTick ==
    [][pc = "dbGetRandomDomain" =>
          /\ pc' # "exit"
          /\ fault' = NoFault
          /\ pc' \in {"dispatchAAAA", "refreshSources"}
          /\ (pc' = "dispatchAAAA") <=> (randomDomain' # "")]_vars

\* C12: in feedback mode, a tick on which the time since the last refresh
\* does not exceed the refresh interval makes no activity fetch, and its
\* base delay and the refresh timestamp are those of the previous tick: the
\* base delay of every tick is the stored Pihole.SleepPeriod, and that and
\* Pihole.Timestamp change only in a refresh.
C12_StickyBetweenRefreshes ==
    [][/\ (/\ pc = "calcSleepPeriod"
           /\ ~calc.called
           /\ calc'.called
           /\ conf.Pihole.Enabled
           /\ Since(conf.Pihole.Timestamp, now) <= conf.Pihole.Refresh) =>
              /\ ~calc'.refreshed
              /\ calc'.based
              /\ calc'.sleepPeriod = conf.Pihole.SleepPeriod
              /\ conf'.Pihole = conf.Pihole
       /\ (pc # "main" /\ ~calc'.refreshed) =>
              /\ conf'.Pihole.SleepPeriod = conf.Pihole.SleepPeriod
              /\ conf'.Pihole.Timestamp = conf.Pihole.Timestamp
       /\ (conf'.Pihole.Enabled /\ calc'.based) =>
              calc'.sleepPeriod = conf'.Pihole.SleepPeriod]_vars

\* a tick after the first refresh, within the refresh interval, that took
\* the stored delay without a fetch
C12_Witness ==
    /\ conf.Pihole.Enabled
    /\ calc.based
    /\ ~calc.refreshed
    /\ ~IsZero(conf.Pihole.Timestamp)
    /\ now > conf.Pihole.Timestamp
    /\ Since(conf.Pihole.Timestamp, now) <= conf.Pihole.Refresh
    /\ calc.sleepPeriod = conf.Pihole.SleepPeriod

\* C13: the raw delay d a refresh computes from the activity window W, the
\* observed count n > 0 and noisePercentage p makes the synthetic rate p% of
\* the observed rate: 1/d = (p/100) * (n/W), that is d * p * n = 100 * W, up
\* to the rounding of d to a whole unit.
C13_RateIsPercentageOfObserved ==
    (calc.refreshed /\ calc.based /\ calc.divides /\ calc.numQueries > 0) =>
        LET d == calc.raw
            n == calc.numQueries
            W == conf.Pihole.ActivityPeriod
            p == conf.Pihole.NoisePercentage
        IN  /\ (d - 1) * p * n <= 100 * W
            /\ 100 * W <= (d + 1) * p * n

\* C14: with the activity window and noisePercentage fixed, the raw delay
\* is non-increasing in the observed count: the raw delay a refresh computed
\* for its count n is at most that of every smaller count and at least that
\* of every larger one.
C14_RawDelayNonIncreasing ==
    (calc.refreshed /\ calc.based /\ calc.divides /\ calc.numQueries > 0) =>
        /\ \A n1 \in 1..calc.numQueries :
              calc.raw <= RawSleepPeriod(conf.Pihole, n1)
        /\ \A n2 \in calc.numQueries..(MaxRows + 1) :
              RawSleepPeriod(conf.Pihole, n2) <= calc.raw

\* a refresh that observed two queries; one query gives a longer raw delay,
\* three a shorter one
C14_Witness ==
    /\ calc.refreshed
    /\ calc.based
    /\ calc.divides
    /\ calc.numQueries = 2
    /\ calc.raw = RawSleepPeriod(conf.Pihole, 2)
    /\ calc.raw < RawSleepPeriod(conf.Pihole, 1)
    /\ RawSleepPeriod(conf.Pihole, 3) < calc.raw

C16_PercentageRange ==
    /\ conf.Pihole.Enabled => conf.Pihole.NoisePercentage \in 1..100
    /\ calc.refreshed => conf.Pihole.NoisePercentage \in 1..100

\* C17: once the configuration file is read, startup ends with "Min period
\* exceeds max period" exactly when the effective minPeriod exceeds the
\* effective maxPeriod, the effective values being those of --min/--max when
\* the flags are passed; so whenever the noise loop runs minPeriod <=
\* maxPeriod, and the bounds never change afterwards.
C17_MinMaxValidatedOnce ==
    [][/\ (pc' # "main" /\ fault' # FatalConfigFile) =>
              /\ flags'.MinPassed => conf'.Noise.MinPeriod = flags'.MinPeriod
              /\ flags'.MaxPassed => conf'.Noise.MaxPeriod = flags'.MaxPeriod
              /\ (~flags'.MinPassed /\ IsSet(confFile'.noise)) =>
                     conf'.Noise.MinPeriod = Get(Get(confFile'.noise).minPeriod)
              /\ (~flags'.MaxPassed /\ IsSet(confFile'.noise)) =>
                     conf'.Noise.MaxPeriod = Get(Get(confFile'.noise).maxPeriod)
              /\ (fault' = FatalMinMax) <=>
                     (conf'.Noise.MinPeriod > conf'.Noise.MaxPeriod)
       /\ pc' \notin {"main", "exit"} =>
              conf'.Noise.MinPeriod <= conf'.Noise.MaxPeriod
       /\ pc # "main" =>
              /\ conf'.Noise.MinPeriod = conf.Noise.MinPeriod
              /\ conf'.Noise.MaxPeriod = conf.Noise.MaxPeriod]_vars

\* --min above the file's maxPeriod ends startup
C17_Witness ==
    /\ pc = "exit"
    /\ fault = FatalMinMax
    /\ flags.MinPassed
    /\ conf.Noise.MinPeriod = flags.MinPeriod
    /\ conf.Noise.MinPeriod > conf.Noise.MaxPeriod

\* C18: when the configuration file omits the "noise" block, the loaded
\* configuration uses the system defaults: minPeriod = 100ms, maxPeriod =
\* 15s, ipv4 = true, ipv6 = false and the default database path (a value
\* passed on the command line replacing the default).
C18_NoiseDefaultsWhenOmitted ==
    (pc # "main" /\ confFile.ok /\ ~IsSet(confFile.noise)) =>
        /\ conf.Noise.MinPeriod =
               (IF flags.MinPassed THEN flags.MinPeriod ELSE 100 * Millisecond)
        /\ conf.Noise.MaxPeriod =
               (IF flags.MaxPassed THEN flags.MaxPeriod ELSE 15 * Second)
        /\ conf.Noise.IPv4 = TRUE
        /\ conf.Noise.IPv6 = FALSE
        /\ conf.Noise.DbPath =
               (IF flags.DbPassed THEN flags.DbPath ELSE DefaultDbPath)

\* C19: every iteration of the noise loop takes its steps in the order
\* source-refresh check, delay computation, sleep for that delay, domain
\* sampling, dispatch; the AAAA lookup (when enabled) runs and returns before
\* the A lookup (when enabled) starts, both on the domain sampled in this
\* iteration; the next iteration begins only when no lookup is running.
C19_TickStepOrder ==
    [][/\ pc = "refreshSources" => pc' \in {"calcSleepPeriod", "exit"}
       /\ pc = "calcSleepPeriod" => pc' \in {"calcSleepPeriod", "sleep", "exit"}
       /\ pc = "sleep" =>
              /\ pc' = "dbGetRandomDomain"
              /\ calc.returned
              /\ now' = now + calc.result
       /\ pc = "dbGetRandomDomain" =>
              pc' \in {"dispatchAAAA", "refreshSources", "exit"}
       /\ pc = "dispatchAAAA" =>
              IF conf.Noise.IPv6
              THEN /\ pc' = "dnsLookup"
                   /\ lookup'.msgType = "AAAA"
                   /\ lookup'.domain = randomDomain
              ELSE pc' = "dispatchA" /\ ~lookup'.active
       /\ pc = "dispatchA" =>
              /\ ~lookup.active
              /\ IF conf.Noise.IPv4
                 THEN /\ pc' = "dnsLookup"
                      /\ lookup'.msgType = "A"
                      /\ lookup'.domain = randomDomain
                 ELSE pc' = "refreshSources" /\ ~lookup'.active
       /\ pc = "dnsLookup" =>
              /\ lookup.active
              /\ lookup.domain = randomDomain
              /\ \/ pc' = "dnsLookup" /\ lookup'.msgType = lookup.msgType
                 \/ /\ lookup.msgType = "AAAA"
                    /\ pc' = "dispatchA"
                    /\ ~lookup'.active
                 \/ /\ lookup.msgType = "A"
                    /\ pc' = "refreshSources"
                    /\ ~lookup'.active
       /\ pc \in {"dispatchAAAA", "dispatchA", "dnsLookup"} =>
              randomDomain' = randomDomain
       /\ pc # "sleep" => now' = now]_vars

\* the A lookup of a tick whose AAAA lookup is over, on the sampled domain
C19_Witness ==
    /\ pc = "dnsLookup"
    /\ conf.Noise.IPv6
    /\ conf.Noise.IPv4
    /\ lookup.msgType = "A"
    /\ lookup.domain = randomDomain
    /\ randomDomain # ""
    /\ Len(lookup.attempts) > 0
    /\ now > StartTime

\* C20: started with -r/--reusedb, the program does not refresh the domain
\* database on startup: before the first sleep and noise query no source is
\* fetched or loaded, so the refresh check of the first iteration leaves the
\* existing rows as they are and cannot end the program.
C20_ReuseDbSkipsStartupRefresh ==
    [][(flags.ReuseDatabase /\ pc \in {"makeNoise", "refreshSources"}
            /\ now = StartTime) =>
          /\ pc' # "exit"
          /\ pc = "refreshSources" => db' = db]_vars

\* C21: a source whose refresh interval is zero is never refreshed: no
\* refreshSources call of the noise loop fetches or reloads it, and when
\* every source is such a source the call fetches nothing, leaves the rows
\* as they are and cannot end the program.
C21_ZeroRefreshNeverReloaded ==
    [][pc = "refreshSources" =>
          /\ \A j \in 1..Len(reloaded') :
                conf.Sources[reloaded'[j]].Refresh # 0
          /\ (\A k \in 1..Len(conf.Sources) : conf.Sources[k].Refresh = 0) =>
                /\ reloaded' = <<>>
                /\ db' = db
                /\ pc' # "exit"]_vars

\* a later iteration reloaded the second source and not the first, whose
\* refresh interval is zero
C21_Witness ==
    /\ pc = "calcSleepPeriod"
    /\ now > StartTime
    /\ Len(conf.Sources) = 2
    /\ conf.Sources[1].Refresh = 0
    /\ ~IsZero(conf.Sources[1].Timestamp)
    /\ reloaded = <<2>>

\* C22: when a refresh is triggered for a source that has no label, the
\* entire dataset of all sources is purged before that source is reloaded:
\* after a refreshSources call whose last reload is of an unlabelled source,
\* the table holds the rows of that reload only.
C22_UnlabelledRefreshPurgesAll ==
    [][(/\ pc = "refreshSources"
        /\ pc' # "exit"
        /\ reloaded' # <<>>
        /\ conf.Sources[reloaded'[Len(reloaded')]].Label = "") =>
          \A i \in 1..Len(db') : db'[i].Label = ""]_vars

\* C23: the metrics listener runs beside the noise loop and never reads or
\* writes the pacing state or the resolver set: a step of the listener
\* leaves the configuration (refresh timestamp, sleep period, bounds), the
\* running calcSleepPeriod, the resolver set, the clock and the position of
\* the loop as they are, wherever the loop stands.
C23_ListenerLeavesPacingAndResolvers ==
    [][scrapes' # scrapes =>
          UNCHANGED <<conf, calc, dnsServers, flags, pc, lookup, now>>]_vars

\* the listener served a request while calcSleepPeriod stood between a
\* refresh from the pihole activity and the jitter draw
C23_Witness ==
    /\ listening
    /\ scrapes > 0
    /\ pc = "calcSleepPeriod"
    /\ calc.refreshed
    /\ calc.based
    /\ ~IsZero(conf.Pihole.Timestamp)
    /\ dnsServers # <<>>

\* C24: each dispatch attempt records exactly one request observation keyed
\* by record type and server, whatever the exchange then does: while a
\* lookup runs, its request observations are those of the resolvers it has
\* contacted, in order, and a lookup that ended on its k-th resolver has
\* made exactly k of them.
C24_OneRequestObservationPerAttempt ==
    pc = "dnsLookup" =>
       /\ Len(lookup.reqs) = Len(lookup.attempts)
       /\ \A j \in 1..Len(lookup.reqs) :
             lookup.reqs[j] = [type |-> lookup.t, server |-> dnsServers[j]]
       /\ Len(lookup.reqs) = IF lookup.done THEN lookup.i ELSE lookup.i - 1

\* a lookup failed over to its second resolver after a transport failure on
\* the first and recorded two request observations
C24_Witness ==
    /\ pc = "dnsLookup"
    /\ lookup.done
    /\ lookup.i = 2
    /\ lookup.attempts[1].x.err
    /\ Len(lookup.reqs) = 2
    /\ lookup.reqs[1].server # lookup.reqs[2].server

C26_CountExcludesFilteredHost ==
    (calc.refreshed /\ ~calc.fetchFailed) =>
       LET rows == calc.queries
           live == {i \in 1..Len(rows) : ~HasPrefix(rows[i][4], conf.Pihole.Filter)}
       IN  IF conf.Pihole.Filter = EmptyStr
           THEN calc.numQueries = Len(rows)
           ELSE /\ calc.numQueries = Cardinality(live)
                /\ calc.numQueries <= Len(rows)

\* a refresh whose reply mixes rows of the noise host and of another host,
\* under a non-empty filter
C26_Witness ==
    /\ calc.refreshed
    /\ ~calc.fetchFailed
    /\ conf.Pihole.Filter = FilterNoise
    /\ Len(calc.queries) = 3
    /\ calc.queries[1][4] = ClientNoise
    /\ calc.queries[2][4] = ClientLive
    /\ calc.queries[3][4] = ClientNoise
    /\ calc.numQueries = 1

\* C27: for every configuration accepted at startup (minPeriod <= maxPeriod,
\* including equal bounds, a zero minimum and bounds below 10ms) and in both
\* modes, calcSleepPeriod returns without a runtime fault: neither random
\* draw is made with a non-positive bound.
C27_CalcSleepPeriodNeverFaults ==
    [][pc = "calcSleepPeriod" => fault' # PanicInt63n]_vars

\* C28: in feedback mode every refresh, whether its fetch succeeds or fails,
\* records the refresh timestamp, so that a failed fetch is not retried
\* before the refresh interval has elapsed again, and after a failed fetch
\* the base delay is the minimum bound.
C28_EveryRefreshRecordsTimestamp ==
    [][(pc = "calcSleepPeriod" /\ ~calc.called /\ RefreshDue(conf, now)) =>
          /\ conf'.Pihole.Timestamp = now
          /\ ~RefreshDue(conf', now)
          /\ calc'.fetchFailed =>
                /\ calc'.based
                /\ calc'.sleepPeriod = conf.Noise.MinPeriod]_vars

\* C29: the first refreshSources call after startup only initialises the
\* timestamp of each source and reloads no source; afterwards a source is
\* reloaded only when more than its refresh interval has elapsed since its
\* timestamp was last set, and each reload resets that timestamp.
C29_FirstRefreshOnlyInitialises ==
    [][(/\ pc = "refreshSources"
        /\ \A k \in 1..Len(conf.Sources) : IsZero(conf.Sources[k].Timestamp)) =>
          /\ reloaded' = <<>>
          /\ db' = db
          /\ pc' # "exit"
          /\ \A k \in 1..Len(conf.Sources) : conf'.Sources[k].Timestamp = now]_vars

\* C30: dnsLookup never modifies the resolver set or its order (only
\* dnsServerConfig writes it), every lookup starts at the first resolver,
\* also when that resolver ended in transport failure in the preceding
\* lookup, and a later resolver is contacted only after the resolver before
\* it failed in the same lookup.
C30_ResolverSetReadOnly ==
    [][/\ dnsServers' # dnsServers => pc = "dnsServerConfig"
       /\ (~lookup.active /\ lookup'.active) =>
             /\ lookup'.i = 1
             /\ lookup'.attempts = <<>>
       /\ (pc = "dnsLookup" /\ pc' = "dnsLookup") =>
             LET k == Len(lookup'.attempts)
             IN  /\ k = Len(lookup.attempts) + 1
                 /\ lookup'.attempts[k].d = dnsServers[k]
                 /\ lookup'.attempts[k].i = k
                 /\ k > 1 => lookup.attempts[k - 1].x.err]_vars

\* the A lookup contacted the first of two resolvers although the preceding
\* lookup had ended in transport failure on that resolver
C30_Witness ==
    /\ pc = "dnsLookup"
    /\ lookup.primaryFailed
    /\ lookup.msgType = "A"
    /\ Len(dnsServers) = 2
    /\ Len(lookup.attempts) = 1
    /\ lookup.attempts[1].d = dnsServers[1]

=============================================================================
